---------------------------- MODULE Spec2Model ----------------------------
(***************************************************************************)
(* Hierarchical state machine engine of src/hsm/hsm.hpp (hsm::State,       *)
(* hsm::Action, hsm::StateMachine) and the VCR example program.            *)
(*                                                                         *)
(* States are numbered 1..n, 0 stands for nullptr.  A binding (Action) is  *)
(* an index into tab, 0 stands for nullptr.  One step of the model is one  *)
(* call of StateMachine::start or StateMachine::message, run to its end    *)
(* (or to the assertion that aborts it, or to the loop that never ends).   *)
(* Assertions are compiled in: the header includes <cassert> and nothing   *)
(* in the repository defines NDEBUG.  Of a Message only its event is read. *)
(***************************************************************************)
EXTENDS Integers, Sequences, FiniteSets

VARIABLES
    parent,   \* State::parent of every state
    tab,      \* StateMachine::tab, the bindings in declaration order
    queue,    \* State::queue of every state: head of its action list
    next,     \* Action::next of every binding
    state,    \* StateMachine::state, the active state
    target,   \* StateMachine::target, the pending-target slot
    pc,       \* "idle": the last call returned; "aborted": an assertion failed;
              \* "hung": the call never returns
    call,     \* the last public call: its name, argument and the active state before it
    log,      \* what the last call did, in order (see Rec)
    step      \* position of the example program's main: the number of its calls
              \* made so far; -1 once the calls made are not main's

vars == <<parent, tab, queue, next, state, target, pc, call, log, step>>

(***************************************************************************)
(* hsm::Event                                                              *)
(***************************************************************************)
ALL == 0
Stop == 1
Exit == 2
Entry == 3
Init == 4
User == 5

(***************************************************************************)
(* Bounds of the generic configurations                                    *)
(***************************************************************************)
NumStates == 3   \* states of the forest
MaxBind == 2     \* bindings of the table

States == 1..NumStates

\* events a binding of a generic configuration is declared for
BindEvents == {ALL, Exit, Entry, Init, User}

\* every forest on States (each state is numbered after its parent)
Forests == {p \in [States -> 0..NumStates] : \A s \in States : p[s] < s}

\* Action's three constructors: a direct-transition target (the owner itself
\* when none is given), or a handler; arg of a handler is the state it passes
\* to StateMachine::transition(State&), 0 when it does not call it
Bindings ==
    [owner : States, event : BindEvents, kind : {"state"}, arg : States]
    \cup [owner : States, event : BindEvents, kind : {"handler"}, arg : 0..NumStates]

\* the user event a reentrant handler sends
Nested == User + 1

\* bindings of a user event to a handler that calls StateMachine::message with
\* the event Nested on the machine that is running it, after passing arg to
\* transition(State&) (0: without calling it)
Dispatchers ==
    [owner : States, event : {User}, kind : {"dispatch"}, arg : 0..NumStates]

\* tables differ only in the order of each owner's bindings (every state has
\* its own list), so the owners are taken in ascending order
Tables == {t \in [1..MaxBind -> Bindings] :
              \A i \in 1..(MaxBind - 1) : t[i].owner <= t[i + 1].owner}

\* the tables that hold a reentrant handler
ReTables == {t \in [1..MaxBind -> Bindings \cup Dispatchers] :
                /\ \A i \in 1..(MaxBind - 1) : t[i].owner <= t[i + 1].owner
                /\ \E i \in 1..MaxBind : t[i] \in Dispatchers}

(***************************************************************************)
(* The example program: its events, states, binding table and main         *)
(***************************************************************************)
EvPower == User
EvStop == User + 1
EvPlay == User + 2
EvPause == User + 3
EvRec == User + 4
EvRew == User + 5
EvFF == User + 6

StateOff == 1
StateIdle == 2
StateIdleStop == 3
StateIdleFF == 4
StateIdleRew == 5
StatePlaying == 6
StatePlayingPlay == 7
StatePlayingPause == 8
StateRecording == 9
StateRecordingRecord == 10
StateRecordingPause == 11

VcrParent ==
    <<0, 0, StateIdle, StateIdle, StateIdle, 0, StatePlaying, StatePlaying,
      0, StateRecording, StateRecording>>

\* a binding to a state, and a binding to a handler that only prints
To(o, e, t) == [owner |-> o, event |-> e, kind |-> "state", arg |-> t]
Puts(o, e) == [owner |-> o, event |-> e, kind |-> "handler", arg |-> 0]

vcr ==
    << Puts(StateOff, Entry),
       Puts(StateOff, Exit),
       To(StateOff, EvPower, StateIdle),
       Puts(StateIdle, Entry),
       Puts(StateIdle, Exit),
       To(StateIdle, Init, StateIdleStop),
       To(StateIdle, EvPower, StateOff),
       To(StateIdle, EvPlay, StatePlaying),
       To(StateIdle, EvRec, StateRecording),
       Puts(StateIdleStop, Entry),
       To(StateIdleStop, EvRew, StateIdleRew),
       To(StateIdleStop, EvFF, StateIdleFF),
       Puts(StateIdleRew, Entry),
       To(StateIdleRew, EvStop, StateIdle),
       Puts(StateIdleFF, Entry),
       To(StateIdleFF, EvStop, StateIdle),
       Puts(StatePlaying, Entry),
       Puts(StatePlaying, Exit),
       To(StatePlaying, Init, StatePlayingPlay),
       To(StatePlaying, EvPower, StateOff),
       To(StatePlaying, EvStop, StateIdle),
       Puts(StatePlayingPlay, Entry),
       To(StatePlayingPlay, EvPause, StatePlayingPause),
       Puts(StatePlayingPause, Entry),
       To(StatePlayingPause, EvPlay, StatePlayingPlay),
       Puts(StateRecording, Entry),
       Puts(StateRecording, Exit),
       To(StateRecording, Init, StateRecordingRecord),
       To(StateRecording, EvPower, StateOff),
       To(StateRecording, EvStop, StateIdle),
       Puts(StateRecordingRecord, Entry),
       To(StateRecordingRecord, EvPause, StateRecordingPause),
       Puts(StateRecordingPause, Entry),
       To(StateRecordingPause, EvRec, StateRecordingRecord) >>

\* the calls of main, in order
Call(o, a) == [op |-> o, arg |-> a]
main ==
    << Call("start", StateOff),
       Call("message", EvPower),
       Call("message", EvRew),
       Call("message", EvStop),
       Call("message", EvPlay),
       Call("message", EvPause),
       Call("message", EvPlay),
       Call("message", EvStop),
       Call("message", EvRew),
       Call("message", EvStop),
       Call("message", EvRec),
       Call("message", EvStop),
       Call("message", EvPower),
       Call("message", Stop) >>

\* main's position after the call c
Advance(c) ==
    IF step >= 0 /\ step < Len(main) /\ main[step + 1] = c THEN step + 1 ELSE 0 - 1

(***************************************************************************)
(* Outcome of a call step: the engine fields the code writes, the record   *)
(* of what was done, and whether control is still running.                 *)
(***************************************************************************)
Rec(k, s, e, a) == [k |-> k, st |-> s, ev |-> e, act |-> a]

Children(s) == {c \in DOMAIN parent : parent[c] = s}

(***************************************************************************)
(* hsm::State                                                              *)
(***************************************************************************)
RECURSIVE getLevel(_)
getLevel(state_) ==
    IF state_ = 0 THEN 0 ELSE 1 + getLevel(parent[state_])

getPrev(state_) ==
    IF state_ # 0 THEN parent[state_] ELSE state_

\* state_ moved n times to its parent (the two equalising loops of getRoot)
RECURSIVE Lift(_, _)
Lift(state_, n) ==
    IF n <= 0 THEN state_ ELSE Lift(parent[state_], n - 1)

\* the lockstep loop of getRoot
RECURSIVE Meet(_, _)
Meet(state_, other_) ==
    IF state_ = other_ THEN state_ ELSE Meet(parent[state_], parent[other_])

\* getRoot with a lockstep loop that steps before it compares (do-while)
getRootStepFirst(state_, other_) ==
    LET diff_ == getLevel(state_) - getLevel(other_)
    IN  getPrev(Meet(Lift(state_, diff_), Lift(other_, 0 - diff_)))

getRoot(state_, other_) ==
    LET diff_ == getLevel(state_) - getLevel(other_)
    IN  Meet(Lift(state_, diff_), Lift(other_, 0 - diff_))

\* getNext that answers the descendant itself
getNextJumps(state_, sign_) == sign_

RECURSIVE getNext(_, _)
getNext(state_, sign_) ==
    IF sign_ = 0 THEN 0
    ELSE IF state_ = parent[sign_] THEN sign_
    ELSE getNext(state_, parent[sign_])

(***************************************************************************)
(* hsm::Action                                                             *)
(***************************************************************************)
\* result of a scan that never ends (a list that runs into a cycle holding
\* no matching binding)
Diverge == 0 - 1

\* the scan without the test for ALL
RECURSIVE ScanExactOnly(_, _, _, _)
ScanExactOnly(m, action_, event_, fuel) ==
    IF action_ = 0 THEN 0
    ELSE IF tab[action_].event = event_ THEN action_
    ELSE IF fuel = 0 THEN Diverge
    ELSE ScanExactOnly(m, m.next[action_], event_, fuel - 1)

\* the scan that stops on the last binding instead of running off the list
RECURSIVE ScanKeepsLast(_, _, _, _)
ScanKeepsLast(m, action_, event_, fuel) ==
    IF action_ = 0 THEN 0
    ELSE IF tab[action_].event = event_ \/ tab[action_].event = ALL THEN action_
    ELSE IF m.next[action_] = 0 THEN action_
    ELSE IF fuel = 0 THEN Diverge
    ELSE ScanKeepsLast(m, m.next[action_], event_, fuel - 1)

\* the scan whose ALL bindings answer user events only
RECURSIVE ScanAllForUser(_, _, _, _)
ScanAllForUser(m, action_, event_, fuel) ==
    IF action_ = 0 THEN 0
    ELSE IF tab[action_].event = event_
            \/ (tab[action_].event = ALL /\ event_ >= User) THEN action_
    ELSE IF fuel = 0 THEN Diverge
    ELSE ScanAllForUser(m, m.next[action_], event_, fuel - 1)

\* the while loop of getAction; fuel counts the bindings still unvisited: a
\* scan that has visited every binding of the table without reaching nullptr
\* or a match goes round a cycle for ever
RECURSIVE Scan(_, _, _, _)
Scan(m, action_, event_, fuel) ==
    IF action_ = 0 THEN 0
    ELSE IF tab[action_].event = event_ \/ tab[action_].event = ALL THEN action_
    ELSE IF fuel = 0 THEN Diverge
    ELSE Scan(m, m.next[action_], event_, fuel - 1)

getAction(m, state_, event_) ==
    IF state_ = 0 THEN 0 ELSE Scan(m, m.queue[state_], event_, Len(tab))

\* the visit whose handler's call of transition(State&) leaves the slot alone
VisitDropsRequest(m, action_) ==
    IF tab[action_].kind = "state"
    THEN [m |-> m, ret |-> tab[action_].arg]
    ELSE [m |-> m, ret |-> 0]

\* StateMachine::message called by a handler
RECURSIVE reenter(_, _)

\* std::visit(Visitor{message_}, action_->action): a State* binding yields its
\* state; a Handler binding runs the handler, which calls
\* StateMachine::transition(State&) with its arg (0: it does not call it), a
\* reentrant one then calls StateMachine::message, and yields nullptr
Visit(m, action_) ==
    IF tab[action_].kind = "state"
    THEN [m |-> m, ret |-> tab[action_].arg]
    ELSE LET m1 == IF tab[action_].arg # 0
                   THEN [m EXCEPT !.target = tab[action_].arg] ELSE m
         IN  [m |-> IF tab[action_].kind = "dispatch" THEN reenter(m1, Nested) ELSE m1,
              ret |-> 0]

callHandler(m, state_, event_) ==
    LET action_ == getAction(m, state_, event_)
    IN  IF action_ = Diverge
        THEN [m |-> [m EXCEPT !.pc = "hung"], ret |-> 0]
        ELSE LET m1 == [m EXCEPT !.log = Append(@, Rec("call", state_, event_, action_))]
             IN  IF action_ = 0 THEN [m |-> m1, ret |-> 0]
                 ELSE LET v == Visit(m1, action_)
                      IN  [m |-> v.m,
                           ret |-> IF v.ret = 0 THEN state_ ELSE v.ret]

\* Action::link of binding i
link(m, i) ==
    IF m.next[i] = 0
    THEN [m EXCEPT !.next[i] = m.queue[tab[i].owner],
                   !.queue[tab[i].owner] = i]
    ELSE m

\* the loop of StateMachine::start over tab, from binding i on
RECURSIVE linkAll(_, _)
linkAll(m, i) ==
    IF i > Len(tab) THEN m ELSE linkAll(link(m, i), i + 1)

(***************************************************************************)
(* hsm::StateMachine                                                       *)
(***************************************************************************)
RECURSIVE transition(_, _, _)
RECURSIVE callAction(_, _, _)

\* the Exit cascade with the two statements of its body swapped
RECURSIVE ExitLoopMoveFirst(_, _)
ExitLoopMoveFirst(m, root_) ==
    IF m.pc # "idle" \/ m.state = root_ THEN m
    ELSE LET up == getPrev(m.state)
             r == callHandler([m EXCEPT !.state = up], up, Exit)
         IN  ExitLoopMoveFirst(r.m, root_)

\* the Exit cascade that goes on through root_ itself
RECURSIVE ExitLoopThroughRoot(_, _)
ExitLoopThroughRoot(m, root_) ==
    IF m.pc # "idle" \/ m.state = getPrev(root_) THEN m
    ELSE LET r == callHandler(m, m.state, Exit)
         IN  IF r.m.pc # "idle" THEN r.m
             ELSE ExitLoopThroughRoot([r.m EXCEPT !.state = getPrev(m.state)], root_)

\* first loop of transition: the Exit cascade up to root_
RECURSIVE ExitLoop(_, _)
ExitLoop(m, root_) ==
    IF m.pc # "idle" \/ m.state = root_ THEN m
    ELSE LET r == callHandler(m, m.state, Exit)
         IN  IF r.m.pc # "idle" THEN r.m
             ELSE ExitLoop([r.m EXCEPT !.state = getPrev(m.state)], root_)

\* the Entry cascade that goes on to the child the Entry resolution of the
\* target names
RECURSIVE EntryLoopFollowsRequest(_, _)
EntryLoopFollowsRequest(m, next_) ==
    IF m.pc # "idle" \/ m.state = next_ THEN m
    ELSE LET s == getNext(m.state, next_)
             r == callHandler([m EXCEPT !.state = s, !.target = s], s, Entry)
             t == IF r.ret = s THEN r.m.target ELSE r.ret
         IN  IF s = next_ /\ r.m.pc = "idle" /\ r.ret # 0 /\ parent[t] = s
             THEN EntryLoopFollowsRequest(r.m, t)
             ELSE EntryLoopFollowsRequest(r.m, next_)

\* second loop of transition: the Entry cascade down to next_
RECURSIVE EntryLoop(_, _)
EntryLoop(m, next_) ==
    IF m.pc # "idle" \/ m.state = next_ THEN m
    ELSE LET s == getNext(m.state, next_)
             r == callHandler([m EXCEPT !.state = s], s, Entry)
         IN  EntryLoop(r.m, next_)

\* transition without the Init resolution that ends it
transitionNoInit(m, next_, message_) ==
    LET m0    == [m EXCEPT !.log = Append(@, Rec("trans", m.state, message_, next_))]
        root_ == getRoot(m0.state, next_)
    IN  EntryLoop(ExitLoop(m0, root_), next_)

\* transition that resolves Init on the target without acting on the answer
transitionInitNotFollowed(m, next_, message_) ==
    LET m0    == [m EXCEPT !.log = Append(@, Rec("trans", m.state, message_, next_))]
        root_ == getRoot(m0.state, next_)
        m2    == EntryLoop(ExitLoop(m0, root_), next_)
    IN  IF m2.pc # "idle" THEN m2
        ELSE callHandler([m2 EXCEPT !.target = m2.state], m2.state, Init).m

\* message_ is the event of the message that caused the transition (0 for the
\* empty message of start and Stop); the cascades carry their own events
transition(m, next_, message_) ==
    LET m0    == [m EXCEPT !.log = Append(@, Rec("trans", m.state, message_, next_))]
        root_ == getRoot(m0.state, next_)
        m1    == ExitLoop(m0, root_)
        m2    == EntryLoop(m1, next_)
    IN  IF m2.pc # "idle" THEN m2
        ELSE callAction(m2, m2.state, Init).m

\* callAction that reports a binding requesting no transition as unhandled
callActionNoConsume(m, state_, event_) ==
    LET r == callHandler([m EXCEPT !.target = state_], state_, event_)
        target_ == IF r.ret = state_ THEN r.m.target ELSE r.ret
    IN  IF r.m.pc # "idle" THEN [m |-> r.m, ret |-> FALSE]
        ELSE IF r.ret = 0 THEN [m |-> r.m, ret |-> FALSE]
        ELSE IF target_ = state_ THEN [m |-> r.m, ret |-> FALSE]
        ELSE IF ~(event_ >= User \/ parent[target_] = state_)
        THEN [m |-> [r.m EXCEPT !.pc = "aborted"], ret |-> FALSE]
        ELSE [m |-> transition(r.m, target_, event_), ret |-> TRUE]

\* callAction that empties the slot instead of setting it to the candidate
callActionClearsSlot(m, state_, event_) ==
    LET r == callHandler([m EXCEPT !.target = 0], state_, event_)
        target_ == IF r.ret = state_ THEN r.m.target ELSE r.ret
    IN  IF r.m.pc # "idle" THEN [m |-> r.m, ret |-> FALSE]
        ELSE IF r.ret = 0 THEN [m |-> r.m, ret |-> FALSE]
        ELSE IF target_ = state_ THEN [m |-> r.m, ret |-> TRUE]
        ELSE IF ~(event_ >= User \/ (target_ # 0 /\ parent[target_] = state_))
        THEN [m |-> [r.m EXCEPT !.pc = "aborted"], ret |-> FALSE]
        ELSE [m |-> transition(r.m, target_, event_), ret |-> TRUE]

\* callAction that makes the transition also when a user event resolves to the
\* candidate itself
callActionSelfTransition(m, state_, event_) ==
    LET r == callHandler([m EXCEPT !.target = state_], state_, event_)
        target_ == IF r.ret = state_ THEN r.m.target ELSE r.ret
    IN  IF r.m.pc # "idle" THEN [m |-> r.m, ret |-> FALSE]
        ELSE IF r.ret = 0 THEN [m |-> r.m, ret |-> FALSE]
        ELSE IF target_ = state_ /\ event_ < User THEN [m |-> r.m, ret |-> TRUE]
        ELSE IF ~(event_ >= User \/ parent[target_] = state_)
        THEN [m |-> [r.m EXCEPT !.pc = "aborted"], ret |-> FALSE]
        ELSE [m |-> transition(r.m, target_, event_), ret |-> TRUE]

\* callAction that sets the slot to the candidate only when the slot is empty
callActionKeepsSlot(m, state_, event_) ==
    LET r == callHandler([m EXCEPT !.target = IF @ = 0 THEN state_ ELSE @],
                         state_, event_)
        target_ == IF r.ret = state_ THEN r.m.target ELSE r.ret
    IN  IF r.m.pc # "idle" THEN [m |-> r.m, ret |-> FALSE]
        ELSE IF r.ret = 0 THEN [m |-> r.m, ret |-> FALSE]
        ELSE IF target_ = state_ THEN [m |-> r.m, ret |-> TRUE]
        ELSE IF ~(event_ >= User \/ parent[target_] = state_)
        THEN [m |-> [r.m EXCEPT !.pc = "aborted"], ret |-> FALSE]
        ELSE [m |-> transition(r.m, target_, event_), ret |-> TRUE]

\* callAction whose assertion lets a system event name any descendant of the
\* candidate
callActionAnyDescendant(m, state_, event_) ==
    LET r == callHandler([m EXCEPT !.target = state_], state_, event_)
        target_ == IF r.ret = state_ THEN r.m.target ELSE r.ret
    IN  IF r.m.pc # "idle" THEN [m |-> r.m, ret |-> FALSE]
        ELSE IF r.ret = 0 THEN [m |-> r.m, ret |-> FALSE]
        ELSE IF target_ = state_ THEN [m |-> r.m, ret |-> TRUE]
        ELSE IF ~(event_ >= User \/ getRoot(state_, target_) = state_)
        THEN [m |-> [r.m EXCEPT !.pc = "aborted"], ret |-> FALSE]
        ELSE [m |-> transition(r.m, target_, event_), ret |-> TRUE]

\* callAction from the return of callHandler on: r holds the engine as
\* callHandler left it and the state it returned
callActionOn(r, state_, event_) ==
    LET target_ == IF r.ret = state_ THEN r.m.target ELSE r.ret
    IN  IF r.m.pc # "idle" THEN [m |-> r.m, ret |-> FALSE]
        ELSE IF r.ret = 0 THEN [m |-> r.m, ret |-> FALSE]
        ELSE IF target_ = state_ THEN [m |-> r.m, ret |-> TRUE]
        ELSE IF ~(event_ >= User \/ parent[target_] = state_)
        THEN [m |-> [r.m EXCEPT !.pc = "aborted"], ret |-> FALSE]
        ELSE [m |-> transition(r.m, target_, event_), ret |-> TRUE]

\* ret: the bool the code returns
callAction(m, state_, event_) ==
    callActionOn(callHandler([m EXCEPT !.target = state_], state_, event_),
                 state_, event_)

\* bubbling that walks with StateMachine::state itself instead of a local copy
RECURSIVE eventHandlerMovesActive(_, _, _)
eventHandlerMovesActive(m, state_, event_) ==
    IF state_ = 0 THEN [m EXCEPT !.state = 0]
    ELSE LET r == callAction([m EXCEPT !.state = state_], state_, event_)
         IN  IF r.m.pc # "idle" \/ r.ret THEN r.m
             ELSE eventHandlerMovesActive(r.m, parent[state_], event_)

\* the event offered to the active state only, with no walk to its ancestors
eventHandlerLeafOnly(m, state_, event_) ==
    IF state_ = 0 THEN m ELSE callAction(m, state_, event_).m

\* the bubbling loop of eventHandler, from candidate state_ on
RECURSIVE eventHandler(_, _, _)
eventHandler(m, state_, event_) ==
    IF state_ = 0 THEN m
    ELSE LET r == callAction(m, state_, event_)
         IN  IF r.m.pc # "idle" \/ r.ret THEN r.m
             ELSE eventHandler(r.m, parent[state_], event_)

\* message that stops a call made while a handler runs at an assertion
reenterRefused(m, event_) == [m EXCEPT !.pc = "aborted"]

\* the body of message run by a handler, on the engine as the handler finds it
reenter(m, event_) ==
    IF ~(m.state # 0 /\ (event_ = Stop \/ event_ >= User))
    THEN [m EXCEPT !.pc = "aborted"]
    ELSE IF event_ >= User THEN eventHandler(m, m.state, event_)
    ELSE IF event_ = Stop THEN transition(m, 0, 0)
    ELSE m

(***************************************************************************)
(* The public calls                                                        *)
(***************************************************************************)
\* the engine as a call finds it; every procedure above takes the engine as
\* it is when the procedure runs and yields it as the procedure leaves it
Machine == [state |-> state, target |-> target, queue |-> queue, next |-> next,
            log |-> <<>>, pc |-> "idle"]

\* events a caller may pass to message: the system ones and the user events up
\* to the last one a binding names
MaxEvent == IF Len(tab) = 0 THEN User
            ELSE LET evs == {tab[i].event : i \in 1..Len(tab)} \cup {User}
                 IN  CHOOSE e \in evs : \A f \in evs : f <= e
Events == 0..MaxEvent

\* start with its second assertion only
startPreParentOnly(init_) == state = parent[init_]

\* message with its first assertion only
messagePreActiveOnly(event_) == state # 0

\* what the assertions of start and of message require of the caller
startPre(init_) == state = 0 /\ state = parent[init_]
messagePre(event_) == state # 0 /\ (event_ = Stop \/ event_ >= User)

Return(m) ==
    /\ state' = m.state
    /\ target' = m.target
    /\ queue' = m.queue
    /\ next' = m.next
    /\ log' = m.log
    /\ pc' = m.pc

\* the body of start run on the engine m
startBody(m, init_) ==
    IF ~startPre(init_) THEN [m EXCEPT !.pc = "aborted"]
    ELSE transition(linkAll(m, 1), init_, 0)

start(init_) ==
    /\ pc = "idle"
    /\ call' = [op |-> "start", arg |-> init_, pre |-> state]
    /\ step' = Advance(Call("start", init_))
    /\ Return(startBody(Machine, init_))
    /\ UNCHANGED <<parent, tab>>

\* the body of message run on the engine m
messageBody(m, event_) ==
    IF ~messagePre(event_) THEN [m EXCEPT !.pc = "aborted"]
    ELSE IF event_ >= User THEN eventHandler(m, m.state, event_)
    ELSE IF event_ = Stop THEN transition(m, 0, 0)
    ELSE m

message(event_) ==
    /\ pc = "idle"
    /\ call' = [op |-> "message", arg |-> event_, pre |-> state]
    /\ step' = Advance(Call("message", event_))
    /\ Return(messageBody(Machine, event_))
    /\ UNCHANGED <<parent, tab>>

\* StateMachine::transition(State&) called by the application itself, outside
\* of any handler
requestTransition(target_) ==
    /\ pc = "idle"
    /\ call' = [op |-> "transition", arg |-> target_, pre |-> state]
    /\ step' = 0 - 1
    /\ Return([Machine EXCEPT !.target = target_])
    /\ UNCHANGED <<parent, tab>>

Fresh ==
    /\ queue = [s \in DOMAIN parent |-> 0]
    /\ next = [i \in 1..Len(tab) |-> 0]
    /\ state = 0
    /\ target = 0
    /\ pc = "idle"
    /\ call = [op |-> "none", arg |-> 0, pre |-> 0]
    /\ log = <<>>

InitGeneric ==
    /\ parent \in Forests
    /\ tab \in Tables
    /\ step = 0 - 1
    /\ Fresh

\* programs with a reentrant handler
InitReentrant ==
    /\ parent \in Forests
    /\ tab \in ReTables
    /\ step = 0 - 1
    /\ Fresh

\* the example program before main runs
InitVcr ==
    /\ parent = VcrParent
    /\ tab = vcr
    /\ step = 0
    /\ Fresh

\* callers that keep the contract
Next ==
    \/ \E init_ \in DOMAIN parent : startPre(init_) /\ start(init_)
    \/ \E event_ \in Events : messagePre(event_) /\ message(event_)

\* any caller
NextAny ==
    \/ \E init_ \in DOMAIN parent : start(init_)
    \/ \E event_ \in Events : message(event_)

\* callers that keep the contract of start and message and also call
\* transition(State&) between their calls
NextSlot ==
    \/ \E init_ \in DOMAIN parent : startPre(init_) /\ start(init_)
    \/ \E event_ \in Events : messagePre(event_) /\ message(event_)
    \/ \E target_ \in DOMAIN parent : requestTransition(target_)

Spec == InitGeneric /\ [][Next]_vars

SpecSlot == InitGeneric /\ [][NextSlot]_vars

SpecAny == InitGeneric /\ [][NextAny]_vars

SpecVcr == InitVcr /\ [][NextAny]_vars

SpecReentrant == InitReentrant /\ [][Next]_vars

(***************************************************************************)
(* Vocabulary of the properties: the forest and the lists as mathematical  *)
(* objects, defined without the engine's procedures                        *)
(***************************************************************************)
AllStates == DOMAIN parent
Nodes == AllStates \cup {0}
TabIdx == 1..Len(tab)

\* s and its ancestors (none for 0)
RECURSIVE Anc(_)
Anc(s) == IF s = 0 THEN {} ELSE {s} \cup Anc(parent[s])

Depth(s) == Cardinality(Anc(s))

\* the states from s (inclusive) up to its ancestor r (exclusive; r = 0: to the top)
RECURSIVE UpPath(_, _)
UpPath(s, r) == IF s = r \/ s = 0 THEN <<>> ELSE <<s>> \o UpPath(parent[s], r)

Reverse(q) == [i \in 1..Len(q) |-> q[Len(q) + 1 - i]]

IsPrefix(p, q) == Len(p) <= Len(q) /\ \A i \in 1..Len(p) : p[i] = q[i]

Min(S) == CHOOSE x \in S : \A y \in S : x <= y

\* the deepest common ancestor-or-self of a and b, 0 when there is none
Deepest(a, b) ==
    LET common == Anc(a) \cap Anc(b)
    IN  IF common = {} THEN 0
        ELSE CHOOSE c \in common : \A d \in common : Depth(d) <= Depth(c)

\* the bindings of s in the order its list holds them, each once: the list
\* followed from the head until it ends or comes back to a binding already met
RECURSIVE ListFrom(_, _)
ListFrom(a, seen) ==
    IF a = 0 \/ a \in seen THEN <<>> ELSE <<a>> \o ListFrom(next[a], seen \cup {a})

ListSeq(s) == ListFrom(queue[s], {})

\* the list of s ends in none (it runs into no cycle)
RECURSIVE EndsFrom(_, _)
EndsFrom(a, seen) ==
    IF a = 0 THEN TRUE ELSE IF a \in seen THEN FALSE
    ELSE EndsFrom(next[a], seen \cup {a})

Finite(s) == EndsFrom(queue[s], {})

\* the bindings declared for s, last declared first
Owned(s) == {i \in TabIdx : tab[i].owner = s}

RECURSIVE Descending(_)
Descending(S) ==
    IF S = {} THEN <<>>
    ELSE LET x == CHOOSE x \in S : \A y \in S : y <= x
         IN  <<x>> \o Descending(S \ {x})

\* positions of the list of s whose binding answers event e: exactly or as ALL
Matches(s, e) == {i \in 1..Len(ListSeq(s)) : tab[ListSeq(s)[i]].event \in {e, ALL}}

\* the first binding of the list of s that answers e; 0 when none does
FirstMatch(s, e) ==
    IF Matches(s, e) = {} THEN 0 ELSE ListSeq(s)[Min(Matches(s, e))]

\* s has a binding for e, exact or ALL
HasBinding(s, e) == \E i \in Owned(s) : tab[i].event \in {e, ALL}

(***************************************************************************)
(* C9                                                                      *)
(***************************************************************************)
\* C9: for all A and B of the forest, either of them possibly none,
\* getRoot(A, B) is the deepest state that is an ancestor-or-self of both; it
\* is none exactly when they have no common ancestor (different top-level
\* trees, or one side none); getRoot(A, B) = getRoot(B, A) and getRoot(A, A) = A.
LcaIsDeepestCommonAncestor ==
    \A a \in Nodes : \A b \in Nodes :
        LET r == getRoot(a, b)
            common == Anc(a) \cap Anc(b)
        IN  /\ r \in Nodes
            /\ (r = 0) <=> (common = {})
            /\ r # 0 => /\ r \in common
                        /\ \A c \in common : Depth(c) <= Depth(r)
            /\ r = getRoot(b, a)
            /\ getRoot(a, a) = a

\* a transition ran between two states neither of which is an ancestor of the
\* other and which share an ancestor
WitnessLcaOfCousins ==
    \E j \in 1..Len(log) :
        /\ log[j].k = "trans"
        /\ log[j].st # 0 /\ log[j].act # 0
        /\ getRoot(log[j].st, log[j].act) \notin {0, log[j].st, log[j].act}

(***************************************************************************)
(* C5                                                                      *)
(***************************************************************************)
\* the bindings of the list of s declared for exactly e
ExactIn(s, e) == {ListSeq(s)[i] : i \in {j \in 1..Len(ListSeq(s)) : tab[ListSeq(s)[j]].event = e}}

Linked == \E s \in AllStates : queue[s] # 0

\* C6: once linked, whatever number of starts has run, the list of every state
\* is the list the first start built: the state's bindings, each once, last
\* declared first, ending in none.
LinkIsIdempotent ==
    Linked => \A s \in AllStates : Finite(s) /\ ListSeq(s) = Descending(Owned(s))

(***************************************************************************)
(* C7                                                                      *)
(***************************************************************************)
\* C7: every call of start and message returns or stops at an assertion: no
\* lookup, bubbling walk or default-descent runs for ever.
EveryCallTerminates == pc # "hung"

(***************************************************************************)
(* C1                                                                      *)
(***************************************************************************)
TransIdx == {i \in 1..Len(log) : log[i].k = "trans"}

IsCascade(r) == r.k = "call" /\ r.ev \in {Exit, Entry}

\* number of Exit and Entry resolutions that follow record i without a gap
SegLen(i) ==
    CHOOSE n \in 0..(Len(log) - i) :
        /\ \A j \in (i + 1)..(i + n) : IsCascade(log[j])
        /\ i + n = Len(log) \/ ~IsCascade(log[i + n + 1])

\* the resolutions a transition from leaf l to target t owes: Exit from l up to
\* the deepest common ancestor (exclusive), then Entry from below it down to t
Cascade(l, t) ==
    LET r == Deepest(l, t)
        up == UpPath(l, r)
        down == Reverse(UpPath(t, r))
    IN  [i \in 1..Len(up) |-> <<Exit, up[i]>>] \o [i \in 1..Len(down) |-> <<Entry, down[i]>>]

\* C1: every transition of a call, from the state L active when it begins to
\* its target T, resolves Exit once for each state from L up to the least common
\* ancestor (exclusive), leaf first, then Entry once for each state below it down
\* to T, top first, then Init on T; the first transition of a call begins at the
\* leaf that was active when the call was made, also when an ancestor's binding
\* consumed the event.  A call that does not return has done a prefix of this.
CascadeOrder ==
    \A i \in TransIdx :
        LET l == log[i].st
            t == log[i].act
            n == SegLen(i)
            seg == [j \in 1..n |-> <<log[i + j].ev, log[i + j].st>>]
            exp == Cascade(l, t)
        IN  /\ IsPrefix(seg, exp)
            /\ (pc # "hung" \/ i + n < Len(log)) =>
                   /\ seg = exp
                   /\ i + n < Len(log)
                   /\ log[i + n + 1].k = "call"
                   /\ log[i + n + 1].ev = Init
                   /\ log[i + n + 1].st = t
            /\ i = Min(TransIdx) => l = call.pre

\* a user event found no binding at the active leaf, was consumed by the
\* leaf's parent, and the transition left two states and entered one
WitnessCascadeFromLeaf ==
    /\ call.op = "message" /\ call.arg >= User /\ pc = "idle"
    /\ Len(log) >= 6
    /\ log[1].act = 0 /\ log[1].st = call.pre
    /\ log[2].act # 0 /\ log[2].st = parent[call.pre]
    /\ log[3].k = "trans" /\ log[3].st = call.pre
    /\ log[4].ev = Exit /\ log[5].ev = Exit /\ log[6].ev = Entry

(***************************************************************************)
(* C2                                                                      *)
(***************************************************************************)
\* the resolutions of the dispatched event itself, in order
OfEvent(r) == r.k = "call" /\ r.ev = call.arg
Bubbled == SelectSeq(log, OfEvent)

\* C2: a user event is resolved against the active leaf and then against each
\* ancestor in turn, only as long as the state resolved has no binding (exact or
\* ALL) for it; the first state that has one resolves to a binding of its own
\* and is the last state the event is resolved against, whatever that binding
\* does.
BubblingStopsAtFirstBinding ==
    (call.op = "message" /\ call.arg >= User) =>
        LET path == UpPath(call.pre, 0)
            bound == {p \in 1..Len(path) : HasBinding(path[p], call.arg)}
            last == IF bound = {} THEN Len(path) ELSE Min(bound)
        IN  /\ Len(Bubbled) <= last
            /\ pc # "hung" => Len(Bubbled) = last
            /\ \A p \in 1..Len(Bubbled) :
                   /\ Bubbled[p].st = path[p]
                   /\ IF p \in bound THEN Bubbled[p].act \in Owned(path[p])
                      ELSE Bubbled[p].act = 0

\* the leaf's handler consumed the event and requested nothing, while the
\* leaf's parent has a binding for the same event
WitnessHandlerConsumes ==
    /\ call.op = "message" /\ call.arg >= User /\ pc = "idle"
    /\ Len(log) = 1
    /\ log[1].act \in TabIdx
    /\ tab[log[1].act].kind = "handler" /\ tab[log[1].act].arg = 0
    /\ parent[call.pre] # 0 /\ HasBinding(parent[call.pre], call.arg)
    /\ state = call.pre

(***************************************************************************)
(* C3                                                                      *)
(***************************************************************************)
\* what the Init binding of s asks for: the state of a direct binding, the state
\* a handler requests; 0 when s has no binding for Init or the handler requests
\* nothing
InitTarget(s) == IF FirstMatch(s, Init) = 0 THEN 0 ELSE tab[FirstMatch(s, Init)].arg

\* the state reached from s by following Init bindings to children
RECURSIVE Descend(_)
Descend(s) ==
    IF InitTarget(s) \in Children(s) THEN Descend(InitTarget(s)) ELSE s

OfEntry(r) == r.k = "call" /\ r.ev = Entry
Entered == SelectSeq(log, OfEntry)

\* C3: when start(Root) returns, active is the state reached from Root by
\* following Init bindings from each state to its child until a state whose Init
\* resolution names no other state, and Entry was resolved once for each state of
\* the path from Root to active, top first.
StartDescends ==
    (call.op = "start" /\ pc = "idle") =>
        /\ state = Descend(call.arg)
        /\ InitTarget(state) \in {0, state}
        /\ [i \in 1..Len(Entered) |-> Entered[i].st] = Reverse(UpPath(state, 0))

\* start followed two Init bindings down to a state of the third level
WitnessStartDescends ==
    /\ call.op = "start" /\ pc = "idle"
    /\ Depth(state) >= 3
    /\ Len(Entered) >= 3

(***************************************************************************)
(* C4                                                                      *)
(***************************************************************************)
\* C4: message(Stop) resolves Exit once for the active leaf and then for each of
\* its ancestors, deepest first, resolves no Entry and invokes no Init handler;
\* when it returns, active is none.
StopUnwinds ==
    (call.op = "message" /\ call.arg = Stop) =>
        LET path == UpPath(call.pre, 0)
            n == Len(path)
        IN  /\ Len(log) <= n + 2
            /\ \A j \in 1..Len(log) :
                   IF j = 1 THEN log[j] = Rec("trans", call.pre, 0, 0)
                   ELSE IF j <= n + 1
                   THEN log[j].k = "call" /\ log[j].ev = Exit /\ log[j].st = path[j - 1]
                   ELSE log[j] = Rec("call", 0, Init, 0)
            /\ pc # "aborted"
            /\ pc = "idle" => Len(log) = n + 2 /\ state = 0

\* Stop was dispatched below the top level, and an Exit handler of an ancestor ran
WitnessStopUnwinds ==
    /\ call.op = "message" /\ call.arg = Stop /\ pc = "idle"
    /\ state = 0
    /\ Depth(call.pre) >= 2
    /\ \E j \in 1..Len(log) :
           log[j].ev = Exit /\ log[j].st # call.pre /\ log[j].act # 0

(***************************************************************************)
(* C8                                                                      *)
(***************************************************************************)
\* C8: a user event for which neither the active leaf nor any ancestor has a
\* binding leaves active as it was, invokes no handler and resolves no Exit,
\* Entry or Init: all the call does is look the event up and find nothing.
UnboundEventIgnored ==
    (/\ call.op = "message" /\ call.arg >= User
     /\ \A s \in Anc(call.pre) : ~HasBinding(s, call.arg)) =>
        /\ state = call.pre
        /\ pc # "aborted"
        /\ \A j \in 1..Len(log) :
               log[j].k = "call" /\ log[j].ev = call.arg /\ log[j].act = 0

\* an unbound user event bubbled from a leaf below the top level to the top
WitnessUnboundEvent ==
    /\ call.op = "message" /\ call.arg >= User /\ pc = "idle"
    /\ \A s \in Anc(call.pre) : ~HasBinding(s, call.arg)
    /\ Depth(call.pre) >= 2
    /\ Len(log) = Depth(call.pre)

(***************************************************************************)
(* C10                                                                     *)
(***************************************************************************)
\* the active state the claim names after each call of main
trajectory ==
    << StateOff, StateIdleStop, StateIdleRew, StateIdleStop, StatePlayingPlay,
       StatePlayingPause, StatePlayingPlay, StateIdleStop, StateIdleRew,
       StateIdleStop, StateRecordingRecord, StateIdleStop, StateOff, 0 >>

\* C10: as long as the calls made are the calls of main in order, every call
\* returns and active is the state of the trajectory at that call.
MainTrajectory ==
    step >= 1 => pc = "idle" /\ state = trajectory[step]

\* main has made its last call
WitnessMainDone == step = Len(main) /\ state = 0

(***************************************************************************)
(* C11                                                                     *)
(***************************************************************************)
\* position in log of the resolution that consumed the dispatched user event;
\* 0 when the last call was no dispatch of a user event or nothing consumed it
Consumer ==
    IF call.op = "message" /\ call.arg >= User /\ Len(Bubbled) > 0
    THEN (IF log[Len(Bubbled)].act # 0 THEN Len(Bubbled) ELSE 0)
    ELSE 0

\* C11: when the binding that consumes a user event is a handler, what the
\* handler passed to transition(State&) decides alone: a state T other than the
\* candidate makes the engine begin, at once and from the active leaf, the
\* transition to T, and a call that returns rests where the Init bindings lead
\* from T; a handler that did not call it leaves active as it was and ends the
\* call with no Exit, Entry or Init resolved.  (A handler is taken by the last
\* state it passes: each call of transition(State&) overwrites the slot.)
HandlerDecides ==
    (Consumer # 0 /\ tab[log[Consumer].act].kind = "handler") =>
        LET c == Consumer
            T == tab[log[c].act].arg
        IN  /\ T \notin {0, log[c].st} =>
                   /\ Len(log) > c
                   /\ log[c + 1] = Rec("trans", call.pre, call.arg, T)
                   /\ pc = "idle" => state = Descend(T)
            /\ T = 0 => Len(log) = c /\ state = call.pre /\ pc = "idle"

\* the handler of the leaf's parent consumed the event and requested a state of
\* another tree, where the call came to rest
WitnessHandlerRequests ==
    /\ Consumer = 2 /\ pc = "idle"
    /\ tab[log[2].act].kind = "handler"
    /\ tab[log[2].act].arg \notin Anc(call.pre) \cup {0}
    /\ state = tab[log[2].act].arg
    /\ Deepest(state, call.pre) = 0

(***************************************************************************)
(* C12                                                                     *)
(***************************************************************************)
\* C12: whenever a call has returned, active is none or a state whose Init
\* resolution requests no transition: its first binding answering Init, if it
\* has one, names no state or the state itself, and never one of its children.
RestsBelowDefaults ==
    (pc = "idle" /\ state # 0) =>
        /\ InitTarget(state) \in {0, state}
        /\ InitTarget(state) \notin Children(state)

\* a user event led to a state with a default substate and the call came to rest
\* in the substate
WitnessRestsInDefault ==
    /\ Consumer # 0 /\ pc = "idle"
    /\ Len(log) > Consumer
    /\ LET t == log[Consumer + 1].act
       IN  /\ InitTarget(t) \in Children(t)
           /\ state = InitTarget(t)

(***************************************************************************)
(* C13                                                                     *)
(***************************************************************************)
\* the state a resolution names: the state of a direct binding, the state its
\* handler passes to transition(State&); the candidate itself when the handler
\* passes none
Resolved(r) == IF tab[r.act].arg = 0 THEN r.st ELSE tab[r.act].arg

\* resolutions of event e that name a state other than the candidate and other
\* than a child of it
Strays(e) ==
    {j \in 1..Len(log) :
        /\ log[j].k = "call" /\ log[j].ev = e /\ log[j].act # 0
        /\ Resolved(log[j]) # log[j].st
        /\ parent[Resolved(log[j])] # log[j].st}

\* transitions begun on behalf of a system event
SystemTrans == {i \in TransIdx : log[i].ev \in {Exit, Entry, Init}}

\* C13 as claimed: a resolution of Entry, Exit or Init that names a state other
\* than the candidate and other than a child of it stops the call at an
\* assertion; no transition made for a system event spans more than one level.
SystemTargetsAsserted ==
    /\ \A j \in Strays(Exit) \cup Strays(Entry) \cup Strays(Init) :
           j = Len(log) /\ pc = "aborted"
    /\ \A i \in SystemTrans : parent[log[i].act] = log[i].st

\* C13 as amended: a resolution of Init that names a state other than the
\* candidate and other than a child of it stops the call at an assertion; what
\* a resolution of Exit or Entry names is never looked at: the call goes on past
\* it and no assertion stops it there; no transition made for a system event
\* spans more than one level: each is made for Init and goes from the candidate
\* to one of its children.
InitTargetsAsserted ==
    /\ \A j \in Strays(Init) : j = Len(log) /\ pc = "aborted"
    /\ \A j \in Strays(Exit) \cup Strays(Entry) : ~(j = Len(log) /\ pc = "aborted")
    /\ \A i \in SystemTrans :
           /\ log[i].ev = Init
           /\ parent[log[i].act] = log[i].st
           /\ i > 1
           /\ log[i - 1].k = "call" /\ log[i - 1].ev = Init /\ log[i - 1].st = log[i].st

\* a call passed an Entry binding naming a state that is no child of the state
\* entered, and stopped at the assertion on the Init binding of the same state
WitnessStrayInitAsserted ==
    /\ pc = "aborted"
    /\ Len(log) \in Strays(Init)
    /\ \E j \in Strays(Entry) : log[j].st = log[Len(log)].st

(***************************************************************************)
(* C14                                                                     *)
(***************************************************************************)
\* the engine as the next call finds it, had the slot been empty
Cleared == [Machine EXCEPT !.target = 0]

\* two runs of a call did the same: the same resolutions and transitions in the
\* same order, the same end, the same fields left; the slot itself is compared
\* unless the call never returns (a call caught in a lookup before its first
\* candidate resolution has not yet written the slot)
Same(a, b) ==
    /\ a.log = b.log /\ a.pc = b.pc
    /\ a.state = b.state /\ a.queue = b.queue /\ a.next = b.next
    /\ a.pc # "hung" => a.target = b.target

\* C14: what the slot holds when start or message is called, whether left there
\* by an earlier call or put there by transition(State&) between calls, changes
\* nothing of what the call does: the states resolved, the bindings found, the
\* transitions made, the way the call ends and the fields it leaves are those of
\* the same call made with the slot empty.
SlotOverwritten ==
    pc = "idle" =>
        /\ \A init_ \in AllStates :
               startPre(init_) => Same(startBody(Machine, init_), startBody(Cleared, init_))
        /\ \A event_ \in Events :
               messagePre(event_) => Same(messageBody(Machine, event_), messageBody(Cleared, event_))

\* between two calls the application has put into the slot a state of another
\* tree, and the active state has a handler for a user event that requests
\* nothing
WitnessSlotSetBetweenCalls ==
    /\ call.op = "transition" /\ state # 0
    /\ target # 0 /\ Deepest(target, state) = 0
    /\ FirstMatch(state, User) # 0
    /\ tab[FirstMatch(state, User)].kind = "handler"
    /\ tab[FirstMatch(state, User)].arg = 0

(***************************************************************************)
(* C15                                                                     *)
(***************************************************************************)
\* C15: message called while the engine is halted, or with ALL, Exit, Entry or
\* Init, stops at an assertion before anything is resolved: no handler runs and
\* active stays as it was; message called while the engine is active with Stop
\* or a user event passes both assertions.
DispatchPreconditions ==
    call.op = "message" =>
        IF call.pre # 0 /\ (call.arg = Stop \/ call.arg >= User)
        THEN pc = "aborted" => log # <<>>
        ELSE pc = "aborted" /\ log = <<>> /\ state = call.pre

\* Init was dispatched to an active state that has a handler answering Init
WitnessDispatchRejected ==
    /\ call.op = "message" /\ call.arg = Init /\ call.pre # 0
    /\ pc = "aborted"
    /\ FirstMatch(call.pre, Init) # 0
    /\ tab[FirstMatch(call.pre, Init)].kind = "handler"

(***************************************************************************)
(* C16                                                                     *)
(***************************************************************************)
\* C16: start called while the engine is active, or for a state that has a
\* parent, stops at an assertion: it links nothing, resolves nothing and leaves
\* active, the lists and the slot as they were; start called while the engine
\* is halted for a top-level state passes both assertions.
StartPreconditions ==
    [][call'.op = "start" =>
          IF state = 0 /\ parent[call'.arg] = 0
          THEN pc' = "aborted" => log' # <<>>
          ELSE /\ pc' = "aborted" /\ log' = <<>>
               /\ state' = state /\ target' = target
               /\ queue' = queue /\ next' = next]_vars

\* start was called for a top-level state with bindings while the engine was
\* active
WitnessStartRejected ==
    /\ call.op = "start" /\ call.pre # 0 /\ parent[call.arg] = 0
    /\ pc = "aborted"
    /\ state = call.pre
    /\ Owned(call.arg) # {}

(***************************************************************************)
(* C17                                                                     *)
(***************************************************************************)
\* C17: in every transition, from the leaf L active when it begins to its
\* target T, neither Exit nor Entry is resolved for the deepest common ancestor
\* of L and T or for any ancestor of it; when L and T are siblings the cascade is
\* Exit of L and Entry of T and nothing for their parent; when T is an ancestor
\* of L only states below T are exited, none is entered, and Init is resolved
\* on T next.
CommonAncestorsUntouched ==
    \A i \in TransIdx :
        LET l == log[i].st
            t == log[i].act
            n == SegLen(i)
            done == pc # "hung" \/ i + n < Len(log)
        IN  /\ \A j \in (i + 1)..(i + n) : log[j].st \notin Anc(Deepest(l, t))
            /\ (l # t /\ l # 0 /\ t # 0 /\ parent[l] = parent[t] /\ done) =>
                   /\ n = 2
                   /\ log[i + 1].ev = Exit /\ log[i + 1].st = l
                   /\ log[i + 2].ev = Entry /\ log[i + 2].st = t
            /\ (t # 0 /\ t \in Anc(l)) =>
                   /\ \A j \in (i + 1)..(i + n) :
                          log[j].ev = Exit /\ log[j].st \in Anc(l) \ Anc(t)
                   /\ done => /\ n = Depth(l) - Depth(t)
                               /\ log[i + n + 1].k = "call"
                               /\ log[i + n + 1].ev = Init
                               /\ log[i + n + 1].st = t

\* a user event took the engine from a leaf to the leaf's parent, which has a
\* binding that answers Exit and Entry, and the call returned
WitnessTargetIsAncestor ==
    /\ Consumer # 0 /\ pc = "idle"
    /\ Len(log) > Consumer
    /\ log[Consumer + 1].act = parent[call.pre]
    /\ parent[call.pre] # 0
    /\ HasBinding(parent[call.pre], Exit) /\ HasBinding(parent[call.pre], Entry)

(***************************************************************************)
(* C18                                                                     *)
(***************************************************************************)
\* resolutions of Exit or Entry whose binding names a state other than the
\* state resolved, as a direct target or through its handler
Redirects ==
    {j \in 1..Len(log) :
        /\ IsCascade(log[j]) /\ log[j].act # 0
        /\ Resolved(log[j]) # log[j].st}

\* where the Init bindings lead from t; none from none
Rest(t) == IF t = 0 THEN 0 ELSE Descend(t)

\* C18: what an Exit or Entry resolution names is ignored, whether its binding
\* is a direct target or a handler calling transition(State&): no transition
\* begins there and no assertion stops the call there, every transition begins
\* at the start of a call or right after the resolution of a user event or of
\* Init, and a call that returns after transition(next) rests where the Init
\* bindings lead from next.
RequestsInCascadeIgnored ==
    /\ \A j \in Redirects :
           /\ ~(j = Len(log) /\ pc = "aborted")
           /\ j < Len(log) => log[j + 1].k = "call"
    /\ \A i \in TransIdx :
           i = 1 \/ (log[i - 1].k = "call" /\ ~IsCascade(log[i - 1]))
    /\ (pc = "idle" /\ TransIdx # {}) => state = Rest(log[Min(TransIdx)].act)

\* a call entered a state whose Entry handler requested a child of that state,
\* and returned with that state active
WitnessEntryRequestIgnored ==
    /\ pc = "idle" /\ state # 0
    /\ \E j \in Redirects :
           /\ log[j].ev = Entry /\ log[j].st = state
           /\ tab[log[j].act].kind = "handler"
           /\ parent[Resolved(log[j])] = state

(***************************************************************************)
(* C19                                                                     *)
(***************************************************************************)
\* resolutions of a user event or of Init that name the candidate itself: a
\* direct binding to the owner, or a handler that passes the candidate or
\* nothing to transition(State&)
SelfTargets ==
    {j \in 1..Len(log) :
        /\ log[j].k = "call" /\ ~IsCascade(log[j]) /\ log[j].act # 0
        /\ Resolved(log[j]) = log[j].st}

\* C19: a resolution of a user event or of Init that names the candidate itself
\* ends the call: the event is consumed, nothing is resolved after it, no
\* transition is made and active stays the state it was, the leaf the event
\* was dispatched to also when the candidate is an ancestor of that leaf.
NoSelfTransition ==
    \A j \in SelfTargets :
        /\ j = Len(log) /\ pc = "idle"
        /\ log[j].ev >= User => state = call.pre /\ TransIdx = {}
        /\ log[j].ev = Init => state = log[j].st

\* the parent of the active leaf has a direct binding to itself for a user
\* event the leaf has no binding for, and the event was dispatched
WitnessSelfTargetAtAncestor ==
    /\ Consumer = 2 /\ 2 \in SelfTargets
    /\ tab[log[2].act].kind = "state"
    /\ log[2].st = parent[call.pre]
    /\ state = call.pre

(***************************************************************************)
(* C20                                                                     *)
(***************************************************************************)
\* the states entered and not yet exited once the first j resolutions of the
\* last call are done; when the call was made they were the states entered and
\* not exited at the end of the call before it, which EnteredIsActivePath shows
\* to be the active state of then and its ancestors
RECURSIVE EnteredAfter(_)
EnteredAfter(j) ==
    IF j = 0 THEN Anc(call.pre)
    ELSE LET r == log[j]
             E == EnteredAfter(j - 1)
         IN  IF r.k = "call" /\ r.ev = Entry THEN E \cup {r.st}
             ELSE IF r.k = "call" /\ r.ev = Exit THEN E \ {r.st}
             ELSE E

\* C20: all through every start and message the states whose Entry was resolved
\* after their last Exit are the active state and its ancestors: Entry is
\* resolved for a state only when it is not entered and its parent is active,
\* Exit only for the active state, which is entered; every transition and every
\* Init resolution finds exactly the active state and its ancestors entered,
\* and so does the end of every call that ends; after Stop none is entered.
EnteredIsActivePath ==
    /\ \A j \in 1..Len(log) :
           LET r == log[j]
               E == EnteredAfter(j - 1)
           IN  IF r.k = "call" /\ r.ev = Entry
               THEN r.st \notin E /\ E = Anc(parent[r.st])
               ELSE IF r.k = "call" /\ r.ev = Exit
               THEN r.st \in E /\ E = Anc(r.st)
               ELSE IF r.k = "trans" \/ r.ev = Init
               THEN E = Anc(r.st)
               ELSE TRUE
    /\ pc # "hung" => EnteredAfter(Len(log)) = Anc(state)
    /\ (call.op = "message" /\ call.arg = Stop /\ pc = "idle") =>
           EnteredAfter(Len(log)) = {}

\* a user event took the engine out of one tree and two levels down another
WitnessLeftAndEntered ==
    /\ Consumer # 0 /\ pc = "idle"
    /\ Depth(state) >= 2
    /\ Deepest(state, call.pre) = 0
    /\ \E j \in 1..Len(log) : log[j].k = "call" /\ log[j].ev = Exit
    /\ Len(Entered) >= 2

(***************************************************************************)
(* C21                                                                     *)
(***************************************************************************)
\* C21: a step that takes the engine from an active state to none is a
\* message(Stop): no start and no message of a user event, whatever the
\* bindings and whatever its handlers request, leaves an active engine halted,
\* not even a call that stops at an assertion or never returns.
HaltedOnlyByStop ==
    [][(state # 0 /\ state' = 0) => (call'.op = "message" /\ call'.arg = Stop)]_vars

\* a user event took the engine out of one tree, through none, into another
WitnessCrossedTrees ==
    /\ Consumer # 0 /\ pc = "idle"
    /\ state # 0 /\ Deepest(state, call.pre) = 0
    /\ \E i \in TransIdx : getRoot(log[i].st, log[i].act) = 0
    /\ \E j \in 1..Len(log) :
           log[j].k = "call" /\ log[j].ev = Exit /\ parent[log[j].st] = 0

(***************************************************************************)
(* C22                                                                     *)
(***************************************************************************)
\* resolutions of Exit, Entry or Init against a state in whose list the first
\* binding declared for that event or for ALL is one declared for ALL
AllFirst ==
    {j \in 1..Len(log) :
        /\ log[j].k = "call" /\ log[j].ev \in {Exit, Entry, Init} /\ log[j].st # 0
        /\ FirstMatch(log[j].st, log[j].ev) # 0
        /\ tab[FirstMatch(log[j].st, log[j].ev)].event = ALL}

\* C22: when no binding for exactly Exit, Entry or Init precedes the ALL binding
\* in the list of a state, the ALL binding is the one resolved for that event
\* against the state: it is found on entering and on leaving the state, and for
\* Init what it names is the state's Init target: a child is entered at once,
\* any other state but the state itself stops the call at the assertion.
AllAnswersSystemEvents ==
    \A j \in AllFirst :
        LET r == log[j]
            T == Resolved(r)
        IN  /\ r.act = FirstMatch(r.st, r.ev)
            /\ (r.ev = Init /\ T # r.st) =>
                   IF parent[T] = r.st
                   THEN Len(log) > j /\ log[j + 1] = Rec("trans", r.st, Init, T)
                   ELSE j = Len(log) /\ pc = "aborted"

\* a state whose ALL binding names a child and answers Init and Exit took the
\* child for its default on the way in and resolved the same binding for Exit
\* when Stop left it
WitnessAllAsInit ==
    /\ call.op = "message" /\ call.arg = Stop /\ pc = "idle"
    /\ \E j \in AllFirst :
           /\ log[j].ev = Exit
           /\ tab[log[j].act].kind = "state"
           /\ tab[log[j].act].arg = call.pre
           /\ parent[call.pre] = log[j].st
           /\ InitTarget(log[j].st) = call.pre

(***************************************************************************)
(* C23                                                                     *)
(***************************************************************************)
\* the topmost ancestor of s; none for none
Top(s) == IF s = 0 THEN 0 ELSE CHOOSE a \in Anc(s) : parent[a] = 0

\* C23: when the handler that consumes a user event at the candidate S sends,
\* from within, an event that no state of the active path has a binding for,
\* the nested message is taken, is resolved against the active leaf and each of
\* its ancestors, and leaves the slot at the topmost of them; once the handler
\* returns, the outer resolution takes the slot for the handler's request: when
\* S is not top-level it begins the transition from the leaf to the topmost
\* ancestor, which the handler never asked for, and when S is top-level it makes
\* no transition; either way what the handler itself had passed to
\* transition(State&) before is lost.
ReentrantDispatchOverwritesSlot ==
    (/\ Consumer # 0
     /\ tab[log[Consumer].act].kind = "dispatch"
     /\ \A s \in Anc(call.pre) : ~HasBinding(s, Nested)) =>
        LET c == Consumer
            S == log[c].st
            path == UpPath(call.pre, 0)
            d == Len(path)
            done == pc # "hung" \/ Len(log) > c + d
        IN  /\ \A p \in 1..d :
                   c + p <= Len(log) => log[c + p] = Rec("call", path[p], Nested, 0)
            /\ done =>
                   IF Top(call.pre) # S
                   THEN /\ Len(log) > c + d
                        /\ log[c + d + 1] = Rec("trans", call.pre, call.arg, Top(call.pre))
                        /\ pc = "idle" => state = Rest(Top(call.pre))
                   ELSE Len(log) = c + d /\ pc = "idle" /\ state = call.pre

\* a handler of a state below the top level asked for a state of another tree,
\* then sent an event nothing handles; the call returned with the engine in the
\* tree it was in, after a transition to the top of that tree
WitnessRequestLost ==
    /\ Consumer # 0 /\ pc = "idle"
    /\ tab[log[Consumer].act].kind = "dispatch"
    /\ \A s \in Anc(call.pre) : ~HasBinding(s, Nested)
    /\ parent[log[Consumer].st] # 0
    /\ tab[log[Consumer].act].arg # 0
    /\ Deepest(tab[log[Consumer].act].arg, call.pre) = 0
    /\ \E i \in TransIdx : log[i].act = Top(call.pre) /\ log[i].ev = call.arg
    /\ Top(state) = Top(call.pre)

====
